---- MODULE Spec2Model ----
(***************************************************************************)
(* Model of scripts/hf_deploy.py: the command dispatcher that restarts or  *)
(* factory-rebuilds HuggingFace Spaces.  One invocation of the script is a *)
(* run of main(); a shell session invokes the script up to MaxRuns times,  *)
(* one process after the other.  Strings that the script lowercases or     *)
(* compares are sequences of one-character strings, so that str.lower()    *)
(* is computed character by character.                                     *)
(***************************************************************************)
EXTENDS Integers, Sequences, FiniteSets, TLC

VARIABLES sys_argv, pc, action, target, targets, idx, space_id,
          calls, results, out, exit_status, prev, runs

vars == <<sys_argv, pc, action, target, targets, idx, space_id,
          calls, results, out, exit_status, prev, runs>>

\* ---------------------------------------------------------------- bounds
MaxRuns == 2
MaxExtraArgs == 1

\* ------------------------------------------------------- string literals
S_restart == <<"r","e","s","t","a","r","t">>
S_rebuild == <<"r","e","b","u","i","l","d">>
S_all == <<"a","l","l">>
S_backend == <<"b","a","c","k","e","n","d">>
S_gateway == <<"g","a","t","e","w","a","y">>
S_sep == <<",", " ">>

HF_USERNAME == <<"b","e","n","8","2","0">>

SPACES_keys == <<S_backend, S_gateway>>

SPACES ==
    (S_backend :> (HF_USERNAME \o <<"/">> \o
        <<"w","i","g","h","a","v","e","n","-">> \o S_backend))
    @@
    (S_gateway :> (HF_USERNAME \o <<"/">> \o
        <<"w","i","g","h","a","v","e","n","-">> \o S_gateway))

\* A local variable of main() that has not been assigned yet.
Unbound == <<"<unbound>">>

\* --------------------------------------------------------- str.lower()
UpperChars == <<"A","B","C","D","E","F","G","H","I","J","K","L","M",
                "N","O","P","Q","R","S","T","U","V","W","X","Y","Z">>
LowerChars == <<"a","b","c","d","e","f","g","h","i","j","k","l","m",
                "n","o","p","q","r","s","t","u","v","w","x","y","z">>

LowerTable ==
    [c \in {UpperChars[i] : i \in DOMAIN UpperChars} |->
        LowerChars[CHOOSE i \in DOMAIN UpperChars : UpperChars[i] = c]]

LowerChar(c) == IF c \in DOMAIN LowerTable THEN LowerTable[c] ELSE c

lower(s) == [i \in DOMAIN s |-> LowerChar(s[i])]

\* ', '.join(...)
RECURSIVE join(_, _)
join(sep, parts) ==
    IF parts = <<>> THEN <<>>
    ELSE IF Len(parts) = 1 THEN parts[1]
    ELSE parts[1] \o sep \o join(sep, Tail(parts))

\* ------------------------------------------------------- console output
Line(kind, arg, detail) == [kind |-> kind, arg |-> arg, detail |-> detail]

\* ---------------------------------------------------- the remote client
RestartCall_Factory(sid) == [space_id |-> sid, factory_reboot |-> TRUE]
RestartCall(sid) == [space_id |-> sid, factory_reboot |-> FALSE]

RebuildCall(sid) == [space_id |-> sid, factory_reboot |-> TRUE]

\* Failure details the remote client may raise (str(e)).
Errors == {"401 Unauthorized", "404 Not Found"}

\* ------------------------------------------------------ command lines
Prog == <<"h","f","_","d","e","p","l","o","y",".","p","y">>

S_foo == <<"f","o","o">>

\* Candidate values of sys.argv[1]: the two actions, case variants of them,
\* an unknown word and the empty string.
ActionTokens == { S_restart,
                  <<"R","E","S","T","A","R","T">>,
                  S_rebuild,
                  <<"R","e","b","u","i","l","d">>,
                  S_foo,
                  <<>> }

\* Candidate values of sys.argv[2]: the registry keys, "all", case variants
\* of them, an unknown word and a word that is only valid as an action.
TargetTokens == { S_backend,
                  <<"B","a","c","k","e","n","d">>,
                  S_gateway,
                  S_all,
                  <<"A","L","L">>,
                  S_foo,
                  S_restart }

Extra == <<"-","v">>

Argvs ==
    { <<Prog>> }
    \cup { <<Prog, a>> : a \in ActionTokens }
    \cup { <<Prog, a, t>> \o [i \in 1..n |-> Extra] :
              a \in ActionTokens, t \in TargetTokens, n \in 0..MaxExtraArgs }

\* ------------------------------------------------------------------ Init
Init ==
    /\ sys_argv = <<>>
    /\ pc = "idle"
    /\ action = Unbound
    /\ target = Unbound
    /\ targets = Unbound
    /\ idx = 1
    /\ space_id = Unbound
    /\ calls = <<>>
    /\ results = <<>>
    /\ out = <<>>
    /\ exit_status = -1
    /\ prev = <<>>
    /\ runs = 0

\* The shell starts the script: a fresh process with its own argv.
Invoke(argv) ==
    /\ pc \in {"idle", "exited"}
    /\ runs < MaxRuns
    /\ runs' = runs + 1
    /\ prev' = IF pc = "exited"
               THEN << [argv |-> sys_argv, calls |-> calls,
                        status |-> exit_status] >>
               ELSE <<>>
    /\ sys_argv' = argv
    /\ pc' = "main"
    /\ action' = Unbound
    /\ target' = Unbound
    /\ targets' = Unbound
    /\ idx' = 1
    /\ space_id' = Unbound
    /\ calls' = <<>>
    /\ results' = <<>>
    /\ out' = <<>>
    /\ exit_status' = -1

\* sys.exit(code)
Exit(code) ==
    /\ pc' = "exited"
    /\ exit_status' = code

\* main(), lines 46-48
CheckArgs_ExitZero ==
    /\ pc = "main"
    /\ IF Len(sys_argv) < 3
       THEN /\ out' = Append(out, Line("usage", <<>>, ""))
            /\ Exit(0)
       ELSE /\ pc' = "parse"
            /\ UNCHANGED <<out, exit_status>>
    /\ UNCHANGED <<sys_argv, action, target, targets, idx, space_id,
                   calls, results, prev, runs>>

CheckArgs ==
    /\ pc = "main"
    /\ IF Len(sys_argv) < 3
       THEN /\ out' = Append(out, Line("usage", <<>>, ""))
            /\ Exit(1)
       ELSE /\ pc' = "parse"
            /\ UNCHANGED <<out, exit_status>>
    /\ UNCHANGED <<sys_argv, action, target, targets, idx, space_id,
                   calls, results, prev, runs>>

\* main(), lines 50-53 (sys.argv[0] is sys_argv[1] here)
ParseArgs_NoLower ==
    /\ pc = "parse"
    /\ action' = sys_argv[2]
    /\ target' = sys_argv[3]
    /\ pc' = "resolve"
    /\ UNCHANGED <<sys_argv, targets, idx, space_id, calls, results, out,
                   exit_status, prev, runs>>

ParseArgs ==
    /\ pc = "parse"
    /\ action' = lower(sys_argv[2])
    /\ target' = lower(sys_argv[3])
    /\ pc' = "resolve"
    /\ UNCHANGED <<sys_argv, targets, idx, space_id, calls, results, out,
                   exit_status, prev, runs>>

\* list(SPACES.keys())
AllTargets_Reversed == <<SPACES_keys[2], SPACES_keys[1]>>
AllTargets == SPACES_keys

\* main(), lines 55-62
ResolveTarget_Lenient ==
    /\ pc = "resolve"
    /\ IF target = S_all
       THEN /\ targets' = AllTargets
            /\ pc' = "loop"
            /\ UNCHANGED <<out, exit_status>>
       ELSE IF target \in DOMAIN SPACES
       THEN /\ targets' = <<target>>
            /\ pc' = "loop"
            /\ UNCHANGED <<out, exit_status>>
       ELSE /\ out' = out \o
                <<Line("unknown_target", target, ""),
                  Line("available_targets",
                       join(S_sep, SPACES_keys) \o S_sep \o S_all, "")>>
            /\ targets' = <<>>
            /\ pc' = "loop"
            /\ UNCHANGED exit_status
    /\ idx' = 1
    /\ UNCHANGED <<sys_argv, action, target, space_id, calls, results,
                   prev, runs>>

ResolveTarget ==
    /\ pc = "resolve"
    /\ IF target = S_all
       THEN /\ targets' = AllTargets
            /\ pc' = "loop"
            /\ UNCHANGED <<out, exit_status>>
       ELSE IF target \in DOMAIN SPACES
       THEN /\ targets' = <<target>>
            /\ pc' = "loop"
            /\ UNCHANGED <<out, exit_status>>
       ELSE /\ out' = out \o
                <<Line("unknown_target", target, ""),
                  Line("available_targets",
                       join(S_sep, SPACES_keys) \o S_sep \o S_all, "")>>
            /\ Exit(1)
            /\ UNCHANGED targets
    /\ idx' = 1
    /\ UNCHANGED <<sys_argv, action, target, space_id, calls, results,
                   prev, runs>>

\* main(), lines 64-67: next target, action == "restart"
DispatchRestart ==
    /\ pc = "loop"
    /\ idx <= Len(targets)
    /\ action = S_restart
    /\ space_id' = SPACES[targets[idx]]
    /\ pc' = "restart_space"
    /\ UNCHANGED <<sys_argv, action, target, targets, idx, calls, results,
                   out, exit_status, prev, runs>>

\* main(), lines 64-69: next target, action == "rebuild"
DispatchRebuild ==
    /\ pc = "loop"
    /\ idx <= Len(targets)
    /\ action # S_restart
    /\ action = S_rebuild
    /\ space_id' = SPACES[targets[idx]]
    /\ pc' = "rebuild_space"
    /\ UNCHANGED <<sys_argv, action, target, targets, idx, calls, results,
                   out, exit_status, prev, runs>>

\* main(), lines 64-73: next target, any other action
DispatchUnknownAction_AsRestart ==
    /\ pc = "loop"
    /\ idx <= Len(targets)
    /\ action # S_restart
    /\ action # S_rebuild
    /\ space_id' = SPACES[targets[idx]]
    /\ pc' = "restart_space"
    /\ UNCHANGED <<sys_argv, action, target, targets, idx, calls, results,
                   out, exit_status, prev, runs>>

DispatchUnknownAction_Continue ==
    /\ pc = "loop"
    /\ idx <= Len(targets)
    /\ action # S_restart
    /\ action # S_rebuild
    /\ space_id' = SPACES[targets[idx]]
    /\ out' = out \o <<Line("unknown_action", action, ""),
                       Line("available_actions",
                            join(S_sep, <<S_restart, S_rebuild>>), "")>>
    /\ idx' = idx + 1
    /\ UNCHANGED <<sys_argv, pc, action, target, targets, calls, results,
                   exit_status, prev, runs>>

DispatchUnknownAction ==
    /\ pc = "loop"
    /\ idx <= Len(targets)
    /\ action # S_restart
    /\ action # S_rebuild
    /\ space_id' = SPACES[targets[idx]]
    /\ out' = out \o <<Line("unknown_action", action, ""),
                       Line("available_actions",
                            join(S_sep, <<S_restart, S_rebuild>>), "")>>
    /\ Exit(1)
    /\ UNCHANGED <<sys_argv, action, target, targets, idx, calls, results,
                   prev, runs>>

\* main() returns after the loop is exhausted: the interpreter exits 0.
MainReturn_Aggregate ==
    /\ pc = "loop"
    /\ idx > Len(targets)
    /\ Exit(IF \E i \in DOMAIN results : results[i] # "ok" THEN 1 ELSE 0)
    /\ UNCHANGED <<sys_argv, action, target, targets, idx, space_id, calls,
                   results, out, prev, runs>>

MainReturn ==
    /\ pc = "loop"
    /\ idx > Len(targets)
    /\ Exit(0)
    /\ UNCHANGED <<sys_argv, action, target, targets, idx, space_id, calls,
                   results, out, prev, runs>>

\* restart_space(), lines 29-31: announce, then block in the remote call
RestartSpaceCall ==
    /\ pc = "restart_space"
    /\ out' = Append(out, Line("restarting", space_id, ""))
    /\ calls' = Append(calls, RestartCall(space_id))
    /\ pc' = "restart_call"
    /\ UNCHANGED <<sys_argv, action, target, targets, idx, space_id,
                   results, exit_status, prev, runs>>

\* restart_space(), line 32: the call returned
RestartSpaceReturn_Silent ==
    /\ pc = "restart_call"
    /\ results' = Append(results, "ok")
    /\ idx' = idx + 1
    /\ pc' = "loop"
    /\ UNCHANGED <<sys_argv, action, target, targets, space_id, calls,
                   out, exit_status, prev, runs>>

RestartSpaceReturn ==
    /\ pc = "restart_call"
    /\ results' = Append(results, "ok")
    /\ out' = Append(out, Line("restart_ok", space_id, ""))
    /\ idx' = idx + 1
    /\ pc' = "loop"
    /\ UNCHANGED <<sys_argv, action, target, targets, space_id, calls,
                   exit_status, prev, runs>>

\* restart_space(), lines 33-34: the call raised Exception e
RestartSpaceRaise_Propagate(e) ==
    /\ pc = "restart_call"
    /\ results' = Append(results, e)
    /\ out' = Append(out, Line("traceback", space_id, e))
    /\ Exit(1)
    /\ UNCHANGED <<sys_argv, action, target, targets, idx, space_id, calls,
                   prev, runs>>

RestartSpaceRaise(e) ==
    /\ pc = "restart_call"
    /\ results' = Append(results, e)
    /\ out' = Append(out, Line("restart_failed", space_id, e))
    /\ idx' = idx + 1
    /\ pc' = "loop"
    /\ UNCHANGED <<sys_argv, action, target, targets, space_id, calls,
                   exit_status, prev, runs>>

\* rebuild_space(), lines 38-40
RebuildSpaceCall ==
    /\ pc = "rebuild_space"
    /\ out' = Append(out, Line("rebuilding", space_id, ""))
    /\ calls' = Append(calls, RebuildCall(space_id))
    /\ pc' = "rebuild_call"
    /\ UNCHANGED <<sys_argv, action, target, targets, idx, space_id,
                   results, exit_status, prev, runs>>

\* rebuild_space(), line 41
RebuildSpaceReturn ==
    /\ pc = "rebuild_call"
    /\ results' = Append(results, "ok")
    /\ out' = Append(out, Line("rebuild_ok", space_id, ""))
    /\ idx' = idx + 1
    /\ pc' = "loop"
    /\ UNCHANGED <<sys_argv, action, target, targets, space_id, calls,
                   exit_status, prev, runs>>

\* rebuild_space(), lines 42-43
RebuildSpaceRaise(e) ==
    /\ pc = "rebuild_call"
    /\ results' = Append(results, e)
    /\ out' = Append(out, Line("rebuild_failed", space_id, e))
    /\ idx' = idx + 1
    /\ pc' = "loop"
    /\ UNCHANGED <<sys_argv, action, target, targets, space_id, calls,
                   exit_status, prev, runs>>

Next ==
    \/ \E argv \in Argvs : Invoke(argv)
    \/ CheckArgs
    \/ ParseArgs
    \/ ResolveTarget
    \/ DispatchRestart
    \/ DispatchRebuild
    \/ DispatchUnknownAction
    \/ MainReturn
    \/ RestartSpaceCall
    \/ RestartSpaceReturn
    \/ \E e \in Errors : RestartSpaceRaise(e)
    \/ RebuildSpaceCall
    \/ RebuildSpaceReturn
    \/ \E e \in Errors : RebuildSpaceRaise(e)

Spec == Init /\ [][Next]_vars

TypeOK ==
    /\ pc \in {"idle", "main", "parse", "resolve", "loop", "restart_space",
               "restart_call", "rebuild_space", "rebuild_call", "exited"}
    /\ exit_status \in {-1, 0, 1}
    /\ (pc = "exited") = (exit_status # -1)
    /\ runs \in 0..MaxRuns
    /\ Len(prev) <= 1

\* ------------------------------------------------------------- properties
\* The command line as the user typed it, case-folded.
HasArgs == Len(sys_argv) >= 3
ArgAction == lower(sys_argv[2])
ArgTarget == lower(sys_argv[3])
ValidAction == ArgAction \in {S_restart, S_rebuild}
SingleTarget == ArgTarget \in {S_backend, S_gateway}
AllTarget == ArgTarget = S_all

\* The remote call the claims expect for action a on registry key t.
ExpectedCall(a, t) ==
    [space_id |-> SPACES[t], factory_reboot |-> (a = S_rebuild)]
ExpectedAll(a) ==
    <<ExpectedCall(a, S_backend), ExpectedCall(a, S_gateway)>>

IsPrefix(s, t) ==
    /\ Len(s) <= Len(t)
    /\ \A i \in DOMAIN s : s[i] = t[i]

Count(kind) == Cardinality({i \in DOMAIN out : out[i].kind = kind})

Failed(i) == results[i] # "ok"

\* C1: with a registered single target t and a valid action a, the run
\* issues exactly one remote call, restart_space(SPACES[t]) with
\* factory_reboot exactly when a is rebuild; at no point is a call issued on
\* another identifier or with the other variant.
C1_SingleTargetOneCall ==
    (HasArgs /\ ValidAction /\ SingleTarget) =>
        /\ IsPrefix(calls, <<ExpectedCall(ArgAction, ArgTarget)>>)
        /\ (pc = "exited" => Len(calls) = 1)

C1_Witness ==
    /\ pc = "exited"
    /\ HasArgs
    /\ ArgAction = S_rebuild
    /\ ArgTarget = S_gateway
    /\ calls = <<[space_id |-> SPACES[S_gateway], factory_reboot |-> TRUE]>>

\* C2: with target "all" and a valid action, the remote operation is issued
\* for backend's identifier first and then gateway's, exactly once each,
\* whatever the outcome of each call.
C2_AllInRegistryOrder ==
    (HasArgs /\ ValidAction /\ AllTarget) =>
        /\ IsPrefix(calls, ExpectedAll(ArgAction))
        /\ (pc = "exited" => calls = ExpectedAll(ArgAction))

C2_Witness ==
    /\ pc = "exited"
    /\ HasArgs
    /\ ArgAction = S_restart
    /\ AllTarget
    /\ Len(calls) = 2
    /\ calls[1].space_id = SPACES[S_backend]
    /\ calls[2].space_id = SPACES[S_gateway]
    /\ Failed(1)
    /\ ~Failed(2)

\* C3: in a multi-target run a raised failure is caught and the remaining
\* targets are still attempted: once a call has failed the process keeps
\* running until every target has been called, so a run with failures makes
\* the same number of calls as a run without.
C3_FailureIsolated ==
    (HasArgs /\ ValidAction /\ AllTarget
        /\ \E i \in DOMAIN results : Failed(i)) =>
        /\ (Len(calls) < Len(SPACES_keys) => pc # "exited")
        /\ (pc = "exited" => Len(calls) = Len(SPACES_keys))
        /\ \A i \in DOMAIN results :
              Failed(i) /\ i < Len(SPACES_keys) /\ pc = "loop" => idx > i

C3_Witness ==
    /\ pc = "exited"
    /\ HasArgs
    /\ ValidAction
    /\ AllTarget
    /\ Len(results) = 2
    /\ Failed(1)
    /\ Failed(2)
    /\ Len(calls) = 2

\* C4: an unregistered target gives zero remote calls and exit status 1
\* after the unknown-target error and the list backend, gateway, all; no
\* unknown-action error is printed, whatever the action string.
C4_UnknownTarget ==
    (HasArgs /\ ~SingleTarget /\ ~AllTarget) =>
        /\ calls = <<>>
        /\ Count("unknown_action") = 0
        /\ (pc = "exited" =>
              /\ exit_status = 1
              /\ out = <<Line("unknown_target", ArgTarget, ""),
                         Line("available_targets",
                              <<"b","a","c","k","e","n","d",","," ",
                                "g","a","t","e","w","a","y",","," ",
                                "a","l","l">>, "")>>)

C4_Witness ==
    /\ pc = "exited"
    /\ HasArgs
    /\ ArgTarget = S_foo
    /\ ArgAction = S_foo
    /\ exit_status = 1
    /\ Len(out) = 2

\* C5: with zero or one argument the run prints the usage text, makes no
\* remote call and exits with status 1, with neither the action nor the
\* target ever resolved.
C5_Usage ==
    (pc # "idle" /\ Len(sys_argv) < 3) =>
        /\ calls = <<>>
        /\ action = Unbound
        /\ target = Unbound
        /\ targets = Unbound
        /\ pc \in {"main", "exited"}
        /\ (pc = "exited" =>
              /\ exit_status = 1
              /\ out = <<Line("usage", <<>>, "")>>)

C5_Witness ==
    /\ pc = "exited"
    /\ Len(sys_argv) = 2
    /\ exit_status = 1
    /\ Count("usage") = 1

\* C6: an unrecognized action with a resolvable target is fatal: no remote
\* call is issued at any point and the run exits with status 1.
C6_UnknownActionFatal ==
    (HasArgs /\ ~ValidAction /\ (SingleTarget \/ AllTarget)) =>
        /\ calls = <<>>
        /\ (pc = "exited" => exit_status = 1)

C6_Witness ==
    /\ pc = "exited"
    /\ HasArgs
    /\ ~ValidAction
    /\ AllTarget
    /\ exit_status = 1
    /\ Count("unknown_action") > 0

\* C7: with at least two arguments, a resolvable target and a valid action
\* the run exits with status 0 however many remote calls failed.
C7_ExitZero ==
    (pc = "exited" /\ HasArgs /\ ValidAction /\ (SingleTarget \/ AllTarget))
        => exit_status = 0

C7_Witness ==
    /\ pc = "exited"
    /\ HasArgs
    /\ ValidAction
    /\ AllTarget
    /\ Len(results) = 2
    /\ \A i \in DOMAIN results : Failed(i)
    /\ exit_status = 0

\* C8 as stated: with an invalid action and target "all" the unknown-action
\* error is printed once per resolved target, i.e. twice.
C8_Original ==
    (pc = "exited" /\ HasArgs /\ ~ValidAction /\ AllTarget)
        => Count("unknown_action") = Len(SPACES_keys)

\* C8 (amended): with an invalid action and target "all" the unknown-action
\* error is printed exactly once, at the first resolved target, where the
\* run exits; it is never printed a second time.
C8_PrintedOnce ==
    (HasArgs /\ ~ValidAction /\ AllTarget) =>
        /\ Count("unknown_action") <= 1
        /\ (pc = "exited" =>
              /\ Count("unknown_action") = 1
              /\ Count("available_actions") = 1
              /\ idx = 1)

C8_Witness ==
    /\ pc = "exited"
    /\ HasArgs
    /\ ~ValidAction
    /\ AllTarget
    /\ targets = SPACES_keys
    /\ Count("unknown_action") = 1

\* C9: two invocations whose action strings and target strings are equal
\* after lowercasing make the same sequence of remote calls and exit with
\* the same status.
C9_CaseInsensitive ==
    (pc = "exited" /\ prev # <<>> /\ HasArgs /\ Len(prev[1].argv) >= 3
        /\ lower(prev[1].argv[2]) = ArgAction
        /\ lower(prev[1].argv[3]) = ArgTarget) =>
        /\ calls = prev[1].calls
        /\ exit_status = prev[1].status

C9_Witness ==
    /\ pc = "exited"
    /\ prev # <<>>
    /\ HasArgs
    /\ Len(prev[1].argv) >= 3
    /\ prev[1].argv[2] # sys_argv[2]
    /\ prev[1].argv[3] # sys_argv[3]
    /\ lower(prev[1].argv[2]) = ArgAction
    /\ lower(prev[1].argv[3]) = ArgTarget
    /\ Len(calls) = 2
    /\ calls = prev[1].calls
    /\ exit_status = 0

\* C10: remote calls are sequential and each is reported before the next
\* begins: the i-th call is followed by exactly one outcome line for its
\* identifier (a confirmation if it returned, a failure line carrying the
\* failure detail if it raised) before call i+1 is issued.
OutcomeKinds == {"restart_ok", "restart_failed", "rebuild_ok",
                 "rebuild_failed"}
IsOutcome(l) == l.kind \in OutcomeKinds
Outcomes == SelectSeq(out, IsOutcome)

C10_ReportedBeforeNext ==
    /\ Len(Outcomes) = Len(results)
    /\ Len(calls) = Len(results) + (IF pc \in {"restart_call", "rebuild_call"}
                                    THEN 1 ELSE 0)
    /\ \A i \in DOMAIN results :
          /\ Outcomes[i].arg = calls[i].space_id
          /\ Outcomes[i].detail = (IF Failed(i) THEN results[i] ELSE "")
          /\ Outcomes[i].kind =
                IF calls[i].factory_reboot
                THEN (IF Failed(i) THEN "rebuild_failed" ELSE "rebuild_ok")
                ELSE (IF Failed(i) THEN "restart_failed" ELSE "restart_ok")

C10_Witness ==
    /\ pc = "restart_call"
    /\ Len(calls) = 2
    /\ Len(results) = 1
    /\ Len(Outcomes) = 1
    /\ Outcomes[1].kind = "restart_failed"
    /\ Outcomes[1].arg = SPACES[S_backend]
====
